---- MODULE Spec2Model ----
(***************************************************************************)
(* A model of compress_gallery.py: the orientation normaliser, the         *)
(* quality/scale search of the two encoders, compress_one and the batch    *)
(* driver walk_and_compress.                                               *)
(*                                                                         *)
(* Optional Python values (None or an object) are records with a "kind"    *)
(* field, so that they can be compared with each other.                    *)
(***************************************************************************)
EXTENDS Integers, Sequences, FiniteSets, TLC

VARIABLES
    pc,           \* position of the single thread of control
    im,           \* the decoded image handed to normalize_orientation
    im_in,        \* history: that image as it was when the call was made
    strategy,     \* orient_strategy
    base,         \* the image the normaliser returned / the encoder's base
    exif_bytes,   \* the metadata bytes the normaliser returned, or None
    icc,          \* the colour profile bytes, or None
    limit_bytes,  \* the byte budget
    min_side,     \* the floor of the shorter side
    fmt,          \* the encoder that is running: "JPEG" or "WEBP"
    rounds,       \* number of times scale was multiplied by 0.85
    qi,           \* index in quality_steps of the next probe
    work,         \* size of the working image of this round
    work_prev,    \* size of the working image of the previous round
    last_data,    \* last_data of the encoder
    result,       \* the encoder's return value
    probes,       \* history: the probes made so far, in order
    input_path,   \* the file compress_one is working on
    output_path,  \* where the driver asked it to be written
    on_disk,      \* what the file system holds at input_path
    ret,          \* compress_one's return value
    decoded,      \* history: number of Image.open calls that succeeded
    found,        \* history: the files os.walk yields, in its order
    todo,         \* the files os.walk has still to yield
    out_fs,       \* the destination tree: path -> content
    writers,      \* history: path -> the source files written to it, in order
    outcomes,     \* history: the outcome recorded for each processed file
    total, ok, fail

vars == <<pc, im, im_in, strategy, base, exif_bytes, icc, limit_bytes, min_side, fmt,
          rounds, qi, work, work_prev, last_data, result, probes, input_path,
          output_path, on_disk, ret, decoded, found, todo, out_fs, writers, outcomes,
          total, ok, fail>>

encVars  == <<base, exif_bytes, icc, limit_bytes, min_side, fmt, rounds, qi,
              work, work_prev, last_data, result, probes>>
fileVars == <<input_path, output_path, on_disk, ret, decoded>>
walkVars == <<found, todo, out_fs, writers, outcomes, total, ok, fail>>

(***************************************************************************)
(* Bounds of the model.                                                    *)
(***************************************************************************)
MaxOriSide == 2     \* sides of the images given to the normaliser alone
MaxSide    == 8     \* sides of the images given to the encoders alone
MaxMinSide == 6     \* min_side ranges over 1..MaxMinSide
MaxLen     == 2     \* encoded lengths and limit_bytes range over 1..MaxLen
MaxRounds  == 13    \* cap on the number of shrink rounds explored

None == [kind |-> "None"]

Min(a, b) == IF a <= b THEN a ELSE b
Max(a, b) == IF a >= b THEN a ELSE b

(***************************************************************************)
(* EXIF.  An Exif object is a mapping tag -> value, kept as a set of       *)
(* <<tag, value>> pairs.  Its serialisation (tobytes) is the sequence of   *)
(* the entries ordered by tag.                                             *)
(***************************************************************************)
ORIENTATION == 274

Exif(tags) == [kind |-> "Exif", tags |-> tags]

\* bool(exif): None is falsy, and so is an Exif object without entries.
ExifTruthy(exif) == exif.kind = "Exif" /\ exif.tags # {}

\* exif.get(tag, default)
ExifGet(exif, tag, default) ==
    IF \E p \in exif.tags : p[1] = tag
    THEN (CHOOSE p \in exif.tags : p[1] = tag)[2]
    ELSE default

\* exif[tag] = value
ExifSet(exif, tag, value) ==
    Exif({p \in exif.tags : p[1] # tag} \cup {<<tag, value>>})

\* exif.tobytes(): the entries in ascending tag order.
ExifToBytes(exif) ==
    LET n == Cardinality(exif.tags)
    IN [kind |-> "bytes",
        ifd  |-> CHOOSE s \in [1..n -> exif.tags] :
                    /\ \A i, j \in 1..n : i < j => s[i][1] < s[j][1]
                    /\ {s[i] : i \in 1..n} = exif.tags]

\* The orientation field a reader finds in serialised metadata;
\* 0 when the field is absent.
BytesOrientation(b) ==
    IF \E i \in 1..Len(b.ifd) : b.ifd[i][1] = ORIENTATION
    THEN b.ifd[CHOOSE i \in 1..Len(b.ifd) : b.ifd[i][1] = ORIENTATION][2]
    ELSE 0

(***************************************************************************)
(* Images.  px maps each pixel position <<x, y>> (1-based, x to the right, *)
(* y downwards) to its value.  exif is what getexif() yields: an Exif      *)
(* object, or "raises" when reading the metadata fails.                    *)
(***************************************************************************)
Grid(w, h) == (1..w) \X (1..h)

MkImage(w, h, mode, transparency, exif, prof) ==
    [kind |-> "Image", w |-> w, h |-> h,
     px |-> [p \in Grid(w, h) |-> p],
     mode |-> mode, transparency |-> transparency,
     exif |-> exif, icc_profile |-> prof]

Unreadable == [kind |-> "raises"]

\* img.getexif() inside try/except: None when it raises.
GetExif(img) == IF img.exif.kind = "Exif" THEN img.exif ELSE None

\* Image.transpose(method), for the seven methods exif_transpose uses.
Transpose(img, method) ==
    LET w == img.w
        h == img.h
        swap == method \in {"TRANSPOSE", "ROTATE_270", "TRANSVERSE", "ROTATE_90"}
        nw == IF swap THEN h ELSE w
        nh == IF swap THEN w ELSE h
        src(x, y) ==
            CASE method = "FLIP_LEFT_RIGHT" -> <<w + 1 - x, y>>
              [] method = "ROTATE_180"      -> <<w + 1 - x, h + 1 - y>>
              [] method = "FLIP_TOP_BOTTOM" -> <<x, h + 1 - y>>
              [] method = "TRANSPOSE"       -> <<y, x>>
              [] method = "ROTATE_270"      -> <<y, h + 1 - x>>
              [] method = "TRANSVERSE"      -> <<w + 1 - y, h + 1 - x>>
              [] method = "ROTATE_90"       -> <<w + 1 - y, x>>
    IN [img EXCEPT !.w = nw, !.h = nh,
                   !.px = [p \in Grid(nw, nh) |-> img.px[src(p[1], p[2])]]]

\* The transpose method ImageOps.exif_transpose attaches to each tag.
TransposeMethod(tag) ==
    CASE tag = 2 -> "FLIP_LEFT_RIGHT"
      [] tag = 3 -> "ROTATE_180"
      [] tag = 4 -> "FLIP_TOP_BOTTOM"
      [] tag = 5 -> "TRANSPOSE"
      [] tag = 6 -> "ROTATE_270"
      [] tag = 7 -> "TRANSVERSE"
      [] tag = 8 -> "ROTATE_90"
      [] OTHER   -> "NONE"

Raised == [kind |-> "raised"]

\* ImageOps.exif_transpose(img): the pixels transposed as the image's own
\* orientation tag says; the result carries no orientation tag.  It reads
\* the metadata with an unguarded getexif(), so it raises when that does.
ExifTranspose(img) ==
    IF img.exif.kind # "Exif"
    THEN Raised
    ELSE LET exif   == img.exif
             method == TransposeMethod(ExifGet(exif, ORIENTATION, 1))
         IN IF method = "NONE"
            THEN img
            ELSE [Transpose(img, method) EXCEPT
                     !.exif = Exif({p \in exif.tags : p[1] # ORIENTATION})]

(***************************************************************************)
(* normalize_orientation                                                   *)
(***************************************************************************)
\* ori, as lines 38-40 compute it.
ReadOrientation(exif) ==
    IF ExifTruthy(exif) THEN ExifGet(exif, ORIENTATION, 1) ELSE 1

\* need_rotate with the landscape test made strict: a square image stays.
NeedRotateStrict(ori, w, h) ==
    IF ori \in {3, 4} THEN TRUE
    ELSE IF ori \in {5, 6, 7, 8} THEN w > h
    ELSE FALSE

\* need_rotate of the auto strategy.
NeedRotate(ori, w, h) ==
    IF ori \in {3, 4} THEN TRUE
    ELSE IF ori \in {5, 6, 7, 8} THEN w >= h
    ELSE FALSE

\* The Exif object left as it was read.
RewrittenExifKeep(exif) == exif

\* exif[274] = 1 on the Exif object.
RewrittenExif(exif) == ExifSet(exif, ORIENTATION, 1)

\* "if exif: exif[274] = 1; return x, exif.tobytes()" / "return x, None".
\* The Exif object is the one cached on img, so img sees the edit too.
WithMetadata(img, out, exif) ==
    IF out = Raised
    THEN [image |-> Raised, exif_bytes |-> None, im |-> img]
    ELSE IF ExifTruthy(exif)
    THEN LET e2 == RewrittenExif(exif)
         IN [image |-> IF out = img THEN [out EXCEPT !.exif = e2] ELSE out,
             exif_bytes |-> ExifToBytes(e2),
             im |-> [img EXCEPT !.exif = e2]]
    ELSE [image |-> out, exif_bytes |-> None, im |-> img]

normalize_orientation(img, strat) ==
    LET exif == GetExif(img)
        ori  == ReadOrientation(exif)
    IN CASE strat = "strip" -> WithMetadata(img, img, exif)
         [] strat = "force" -> WithMetadata(img, ExifTranspose(img), exif)
         [] OTHER ->
              LET need_rotate == NeedRotate(ori, img.w, img.h)
                  out == IF need_rotate THEN ExifTranspose(img) ELSE img
              IN WithMetadata(img, out, exif)

(***************************************************************************)
(* The encoders: save_jpeg_under_limit and save_webp_under_limit.          *)
(***************************************************************************)
quality_steps(f) ==
    IF f = "JPEG" THEN <<92, 85, 80, 72, 65, 60, 50>>
    ELSE <<95, 90, 85, 80, 75, 70, 65, 60>>

Convert(img, mode) == [img EXCEPT !.mode = mode]

\* lines 76-78
JpegBase(img) ==
    IF img.mode \notin {"RGB", "L"} THEN Convert(img, "RGB") ELSE img

\* lines 109-116
WebpBase(img) ==
    LET has_alpha == \/ img.mode \in {"RGBA", "LA"}
                     \/ (img.mode = "P" /\ img.transparency)
    IN IF has_alpha
       THEN IF img.mode # "RGBA" THEN Convert(img, "RGBA") ELSE img
       ELSE IF img.mode \notin {"RGB", "L"} THEN Convert(img, "RGB") ELSE img

EncoderBase(f, img) == IF f = "JPEG" THEN JpegBase(img) ELSE WebpBase(img)

(***************************************************************************)
(* scale is 0.85 multiplied by itself `rounds` times, and int(d * scale)   *)
(* is the floor of d * 17^r / 20^r: the double product and the exact one   *)
(* have the same integer part for every d below 200 and r below 60.  The   *)
(* numerator is kept as base-20 digits, least significant first, so that   *)
(* the division by 20^r drops r digits.  These are functions, which are   *)
(* applied to values.                                                      *)
(***************************************************************************)
Digit == 0..19

Digits20[n \in Nat] ==
    IF n = 0 THEN << >> ELSE <<n % 20>> \o Digits20[n \div 20]

Value20[ds \in Seq(Digit)] ==
    IF ds = << >> THEN 0 ELSE Head(ds) + 20 * Value20[Tail(ds)]

\* ds * 17 + carry
Times17[ds \in Seq(Digit), carry \in Nat] ==
    IF ds = << >>
    THEN Digits20[carry]
    ELSE <<(Head(ds) * 17 + carry) % 20>>
            \o Times17[Tail(ds), (Head(ds) * 17 + carry) \div 20]

\* d * 17^r
ScaledDigits[d \in Nat, r \in Nat] ==
    IF r = 0 THEN Digits20[d] ELSE Times17[ScaledDigits[d, r - 1], 0]

\* int(d * scale)
ScaleInt(d, r) ==
    IF Len(ScaledDigits[d, r]) <= r
    THEN 0
    ELSE Value20[SubSeq(ScaledDigits[d, r], r + 1, Len(ScaledDigits[d, r]))]

\* work.size: base itself at scale 1.0, else the resized copy (lines 85, 123)
WorkSize(w, h, r) ==
    IF r = 0 THEN <<w, h>>
    ELSE <<Max(1, ScaleInt(w, r)), Max(1, ScaleInt(h, r))>>

\* The floor test made strict: equality does not stop the search.
FloorReachedBelow(size, floor) == Min(size[1], size[2]) < floor

\* min(work.size) <= min_side
FloorReached(size, floor) == Min(size[1], size[2]) <= floor

\* The budget test off by one byte.
FitsWithSlack(len, limit) == len <= limit + 1

\* len(data) <= limit_bytes
Fits(len, limit) == len <= limit

\* The for loop stopping one step short of the end of the ladder.
LadderButLast(f, i) == i < Len(quality_steps(f)) - 1

\* whether the for loop over quality_steps has a step after index i
MoreSteps(f, i) == i < Len(quality_steps(f))

\* The bytes work.save writes: what was encoded, how, and how long the
\* buffer is.  The length is the codec's business; the model draws it.
Encoded(f, img, size, q, exif, prof, len) ==
    [kind |-> "bytes", format |-> f, w |-> size[1], h |-> size[2],
     mode |-> img.mode, quality |-> q,
     exif |-> exif, icc_profile |-> prof, len |-> len]

EncLens == 1..MaxLen

\* lines 76-82 / 109-120
SaveBegin ==
    /\ pc = "save_begin"
    /\ base' = EncoderBase(fmt, base)
    /\ rounds' = 0
    /\ qi' = 1
    /\ last_data' = None
    /\ work' = WorkSize(base.w, base.h, 0)
    /\ work_prev' = <<0, 0>>
    /\ probes' = << >>
    /\ pc' = "probe"
    /\ UNCHANGED <<im, im_in, strategy, exif_bytes, icc, limit_bytes, min_side, fmt,
                   result>>
    /\ UNCHANGED fileVars
    /\ UNCHANGED walkVars

\* work, line 85 / 123, is set on entry to each round of the while loop.
\* One pass of the body of the for loop (lines 88-96 / 126-134).  A resize
\* of the same base to the size of the previous round gives the same
\* pixels, so its encodings are as long as the ones that did not fit.
Probe ==
    /\ pc = "probe"
    /\ \E len \in EncLens :
         /\ work = work_prev => len > limit_bytes
         /\ LET q    == quality_steps(fmt)[qi]
                data == Encoded(fmt, base, work, q, exif_bytes, icc, len)
            IN /\ last_data' = data
               /\ probes' = Append(probes,
                     [rounds |-> rounds, qi |-> qi, size |-> work,
                      over |-> len > limit_bytes])
               /\ IF Fits(len, limit_bytes)
                  THEN /\ result' = data
                       /\ pc' = "save_done"
                       /\ qi' = qi
                  ELSE /\ result' = result
                       /\ IF MoreSteps(fmt, qi)
                          THEN qi' = qi + 1 /\ pc' = "probe"
                          ELSE qi' = qi /\ pc' = "ladder_end"
    /\ UNCHANGED <<im, im_in, strategy, base, exif_bytes, icc, limit_bytes, min_side,
                   fmt, rounds, work, work_prev>>
    /\ UNCHANGED fileVars
    /\ UNCHANGED walkVars

\* lines 98-99 / 136-137
FloorReturn ==
    /\ pc = "ladder_end"
    /\ FloorReached(work, min_side)
    /\ result' = last_data
    /\ pc' = "save_done"
    /\ UNCHANGED <<im, im_in, strategy, base, exif_bytes, icc, limit_bytes, min_side,
                   fmt, rounds, qi, work, work_prev, last_data, probes>>
    /\ UNCHANGED fileVars
    /\ UNCHANGED walkVars

\* scale *= 0.85
NextRounds(r) == r + 1

\* line 100 / 138, and back to the top of the while loop
Shrink ==
    /\ pc = "ladder_end"
    /\ ~FloorReached(work, min_side)
    /\ rounds < MaxRounds
    /\ rounds' = NextRounds(rounds)
    /\ work' = WorkSize(base.w, base.h, NextRounds(rounds))
    /\ work_prev' = work
    /\ qi' = 1
    /\ pc' = "probe"
    /\ UNCHANGED <<im, im_in, strategy, base, exif_bytes, icc, limit_bytes, min_side,
                   fmt, last_data, result, probes>>
    /\ UNCHANGED fileVars
    /\ UNCHANGED walkVars

(***************************************************************************)
(* Values of the variables a specification does not use.                   *)
(***************************************************************************)
NoPath == [kind |-> "None"]

IdleEnc0 ==
    /\ base = None /\ exif_bytes = None /\ icc = None /\ fmt = "none"
    /\ rounds = 0 /\ qi = 0 /\ work = <<0, 0>> /\ work_prev = <<0, 0>>
    /\ last_data = None /\ result = None /\ probes = << >>

IdleFile ==
    /\ input_path = NoPath /\ output_path = NoPath /\ on_disk = None
    /\ ret = None
    /\ decoded = 0

IdleWalk ==
    /\ found = << >> /\ todo = << >> /\ out_fs = << >> /\ writers = << >>
    /\ outcomes = << >>
    /\ total = 0 /\ ok = 0 /\ fail = 0

(***************************************************************************)
(* normalize_orientation on its own                                        *)
(***************************************************************************)
OtherEntry == <<271, 7>>

ExifChoices ==
    {Unreadable, Exif({}), Exif({OtherEntry})}
      \cup {Exif({<<ORIENTATION, t>>}) : t \in 1..8}
      \cup {Exif({OtherEntry, <<ORIENTATION, t>>}) : t \in 1..8}

Strategies == {"auto", "force", "strip"}

InitOri ==
    /\ pc = "norm_call"
    /\ \E w \in 1..MaxOriSide, h \in 1..MaxOriSide, e \in ExifChoices :
          im = MkImage(w, h, "RGB", FALSE, e, None)
    /\ im_in = im
    /\ strategy \in Strategies
    /\ IdleEnc0
    /\ limit_bytes = 0 /\ min_side = 0
    /\ IdleFile
    /\ IdleWalk

Normalize ==
    /\ pc = "norm_call"
    /\ LET r == normalize_orientation(im, strategy)
       IN /\ base' = r.image
          /\ exif_bytes' = r.exif_bytes
          /\ im' = r.im
          /\ im_in' = im
          /\ pc' = IF r.image = Raised THEN "norm_raised" ELSE "norm_done"
    /\ UNCHANGED <<strategy, icc, limit_bytes, min_side, fmt, rounds, qi,
                   work, work_prev, last_data, result, probes>>
    /\ UNCHANGED fileVars
    /\ UNCHANGED walkVars

NextOri == Normalize

SpecOri == InitOri /\ [][NextOri]_vars

(***************************************************************************)
(* The encoders on their own                                               *)
(***************************************************************************)
SomeExifBytes == ExifToBytes(Exif({<<ORIENTATION, 1>>}))
SomeIcc == [kind |-> "bytes", profile |-> "sRGB"]

InitEnc ==
    /\ pc = "save_begin"
    /\ im = None /\ im_in = None /\ strategy = "none"
    /\ fmt \in {"JPEG", "WEBP"}
    /\ \E w \in 1..MaxSide, h \in 1..MaxSide,
          m \in {<<"RGB", FALSE>>, <<"RGBA", FALSE>>, <<"P", TRUE>>} :
          base = MkImage(w, h, m[1], m[2], Exif({}), None)
    /\ \E meta \in {<<None, None>>, <<SomeExifBytes, SomeIcc>>} :
          exif_bytes = meta[1] /\ icc = meta[2]
    /\ limit_bytes \in 1..MaxLen
    /\ min_side \in 1..MaxMinSide
    /\ rounds = 0 /\ qi = 0 /\ work = <<0, 0>> /\ work_prev = <<0, 0>>
    /\ last_data = None /\ result = None /\ probes = << >>
    /\ IdleFile
    /\ IdleWalk

NextEnc == SaveBegin \/ Probe \/ FloorReturn \/ Shrink

SpecEnc == InitEnc /\ [][NextEnc]_vars

\* The loop is sequential code: a step that can be taken is taken.
SpecEncFair == SpecEnc /\ WF_vars(NextEnc)

(***************************************************************************)
(* Paths and files.  A path is a directory, a stem and a suffix; the       *)
(* source and the destination tree use the same relative paths.            *)
(***************************************************************************)
Path(dir, stem, suffix) ==
    [kind |-> "Path", dir |-> dir, stem |-> stem, suffix |-> suffix]

\* Path.with_suffix
with_suffix(p, suffix) == [p EXCEPT !.suffix = suffix]

\* str.lower() on the suffixes the model uses
Lower(suffix) ==
    CASE suffix = ".JPG" -> ".jpg"
      [] suffix = ".PNG" -> ".png"
      [] OTHER -> suffix

IMAGE_EXTS ==
    {".jpg", ".jpeg", ".png", ".tif", ".tiff", ".bmp", ".webp", ".heic", ".heif"}

is_image_file(p) == Lower(p.suffix) \in IMAGE_EXTS

\* The bytes of a source file: they are its own, and st_size long.
SourceBytes(p, size) == [kind |-> "bytes", source |-> p, len |-> size]

Corrupt == [kind |-> "corrupt"]

\* What Image.open may find in a file: nothing it can decode, or an image.
DiskImages ==
    {Corrupt,
     MkImage(2, 2, "RGBA", FALSE, Exif({<<ORIENTATION, 6>>}), SomeIcc),
     MkImage(3, 2, "P", TRUE, Unreadable, None)}

\* open(out, "wb").write(data) and shutil.copy2: the file at p becomes c.
WriteFile(fs, p, c) ==
    [q \in DOMAIN fs \cup {p} |-> IF q = p THEN c ELSE fs[q]]

\* history: source file src has written p
Wrote(ws, p, src) ==
    [q \in DOMAIN ws \cup {p} |->
        IF q = p
        THEN (IF p \in DOMAIN ws THEN Append(ws[p], src) ELSE <<src>>)
        ELSE ws[q]]

(***************************************************************************)
(* compress_one                                                            *)
(***************************************************************************)
\* The fast-path test made strict: a file exactly at the limit is re-encoded.
UnderLimitStrict(size, limit) == size < limit

\* input_path.stat().st_size <= limit_bytes
UnderLimit(size, limit) == size <= limit

JpegSources == {".jpg", ".jpeg", ".webp", ".tif", ".tiff", ".bmp", ".heic", ".heif"}

\* The encoder each branch of lines 152-174 calls.
DispatchEncoder(ext) ==
    IF ext = ".png" THEN "WEBP"
    ELSE IF ext \in JpegSources THEN "JPEG"
    ELSE "JPEG"

\* The listed suffixes kept on the output instead of forced to .jpg.
DispatchSuffixKeep(ext) ==
    IF ext = ".png" THEN ".webp"
    ELSE IF ext \in JpegSources THEN ext
    ELSE ".jpg"

\* The suffix each branch gives the output file.
DispatchSuffix(ext) ==
    IF ext = ".png" THEN ".webp"
    ELSE IF ext \in JpegSources THEN ".jpg"
    ELSE ".jpg"

\* The status line of each branch.
DispatchMessage(ext) ==
    IF ext = ".png" THEN "PNG->WebP->OK"
    ELSE IF ext \in JpegSources THEN "EXT->JPEG->OK"
    ELSE "OTHER->JPEG->OK"

Outcome(success, msg, out) ==
    [kind |-> "outcome", success |-> success, msg |-> msg,
     input |-> input_path, out |-> out]

\* except Exception: return False, "FAIL: ..."
Failure == Outcome(FALSE, "FAIL", NoPath)

\* lines 142-145: the file is within the limit and is copied as it is.
\* The copy may fail, and then nothing is written.
CompressFast ==
    /\ pc = "compress_call"
    /\ UnderLimit(on_disk.st_size, limit_bytes)
    /\ \E io_ok \in BOOLEAN :
         IF io_ok
         THEN /\ out_fs' = WriteFile(out_fs, output_path,
                              SourceBytes(input_path, on_disk.st_size))
              /\ writers' = Wrote(writers, output_path, input_path)
              /\ ret' = Outcome(TRUE, "SKIP", output_path)
         ELSE /\ ret' = Failure
              /\ UNCHANGED <<out_fs, writers>>
    /\ pc' = "returned"
    /\ UNCHANGED <<im, im_in, strategy>>
    /\ UNCHANGED encVars
    /\ UNCHANGED <<input_path, output_path, on_disk, decoded>>
    /\ UNCHANGED <<found, todo, outcomes, total, ok, fail>>

\* lines 147-153/161/169: the file is decoded, its orientation normalised
\* and the encoder of its suffix called.  Image.open raises on a file it
\* cannot decode, and normalize_orientation may raise.
CompressOpen ==
    /\ pc = "compress_call"
    /\ ~UnderLimit(on_disk.st_size, limit_bytes)
    /\ IF on_disk.image = Corrupt
       THEN /\ ret' = Failure
            /\ pc' = "returned"
            /\ UNCHANGED <<im, im_in, base, exif_bytes, icc, fmt, decoded>>
       ELSE LET r == normalize_orientation(on_disk.image, strategy)
            IN /\ im_in' = on_disk.image
               /\ im' = r.im
               /\ decoded' = decoded + 1
               /\ IF r.image = Raised
                  THEN /\ ret' = Failure
                       /\ pc' = "returned"
                       /\ UNCHANGED <<base, exif_bytes, icc, fmt>>
                  ELSE /\ base' = r.image
                       /\ exif_bytes' = r.exif_bytes
                       /\ icc' = on_disk.image.icc_profile
                       /\ fmt' = DispatchEncoder(Lower(input_path.suffix))
                       /\ ret' = ret
                       /\ pc' = "save_begin"
    /\ UNCHANGED <<strategy, limit_bytes, min_side, rounds, qi, work,
                   work_prev, last_data, result, probes>>
    /\ UNCHANGED <<input_path, output_path, on_disk>>
    /\ UNCHANGED walkVars

\* work.save raises (line 92 / 130): the encoder is left and the exception
\* caught at line 176.
CompressEncodeFail ==
    /\ pc = "probe"
    /\ ret' = Failure
    /\ pc' = "returned"
    /\ UNCHANGED <<im, im_in, strategy>>
    /\ UNCHANGED encVars
    /\ UNCHANGED <<input_path, output_path, on_disk, decoded>>
    /\ UNCHANGED walkVars

\* lines 154-158 / 162-166 / 170-174: the bytes the encoder returned are
\* written under the suffix of the branch.  The write may fail.
CompressWrite ==
    /\ pc = "save_done"
    /\ LET ext == Lower(input_path.suffix)
           out == with_suffix(output_path, DispatchSuffix(ext))
       IN \E io_ok \in BOOLEAN :
            IF io_ok
            THEN /\ out_fs' = WriteFile(out_fs, out, result)
                 /\ writers' = Wrote(writers, out, input_path)
                 /\ ret' = Outcome(TRUE, DispatchMessage(ext), out)
            ELSE /\ ret' = Failure
                 /\ UNCHANGED <<out_fs, writers>>
    /\ pc' = "returned"
    /\ UNCHANGED <<im, im_in, strategy>>
    /\ UNCHANGED encVars
    /\ UNCHANGED <<input_path, output_path, on_disk, decoded>>
    /\ UNCHANGED <<found, todo, outcomes, total, ok, fail>>

Suffixes ==
    {".jpg", ".JPG", ".jpeg", ".png", ".PNG", ".webp", ".tif", ".tiff",
     ".bmp", ".heic", ".heif", ".gif", ""}

\* One call of compress_one, on any file.
InitOne ==
    /\ pc = "compress_call"
    /\ im = None /\ im_in = None
    /\ strategy \in Strategies
    /\ IdleEnc0
    /\ limit_bytes \in 1..MaxLen
    /\ min_side \in 1..MaxMinSide
    /\ \E sfx \in Suffixes : input_path = Path("", "a", sfx)
    /\ output_path = input_path
    /\ \E size \in 1..(MaxLen + 1), img \in DiskImages :
          on_disk = [kind |-> "file", st_size |-> size, image |-> img]
    /\ ret = None
    /\ decoded = 0
    /\ IdleWalk

NextOne ==
    \/ CompressFast \/ CompressOpen \/ CompressEncodeFail \/ CompressWrite
    \/ SaveBegin \/ Probe \/ FloorReturn \/ Shrink

SpecOne == InitOne /\ [][NextOne]_vars

(***************************************************************************)
(* walk_and_compress                                                       *)
(***************************************************************************)
\* The files a source tree may hold.
Candidates ==
    {Path("", "a", ".jpg"), Path("", "a", ".bmp"), Path("", "notes", ".txt")}

\* The orders in which os.walk may yield the files of a set.
Listings(fs) ==
    {l \in [1..Cardinality(fs) -> fs] : {l[i] : i \in DOMAIN l} = fs}

InitWalk ==
    /\ pc = "walk"
    /\ im = None /\ im_in = None
    /\ strategy \in Strategies
    /\ IdleEnc0
    /\ limit_bytes \in 1..MaxLen
    /\ min_side = 1
    /\ input_path = NoPath /\ output_path = NoPath /\ on_disk = None
    /\ ret = None
    /\ decoded = 0
    /\ \E fs \in SUBSET Candidates : found \in Listings(fs)
    /\ todo = found
    /\ out_fs = << >> /\ writers = << >> /\ outcomes = << >>
    /\ total = 0 /\ ok = 0 /\ fail = 0

OkCount(n, success) == n + (IF success THEN 1 ELSE 0)

\* A failure that is not counted.
FailCountLost(n, success) == n

FailCount(n, success) == n + (IF success THEN 0 ELSE 1)

\* lines 184-198: a file that is no image is copied; the copy may fail.
WalkCopy ==
    /\ pc = "walk"
    /\ todo # << >>
    /\ ~is_image_file(Head(todo))
    /\ total' = total + 1
    /\ LET in_path  == Head(todo)
           out_path == in_path
       IN \E size \in 1..(MaxLen + 1), io_ok \in BOOLEAN :
            /\ IF io_ok
               THEN /\ out_fs' = WriteFile(out_fs, out_path,
                                    SourceBytes(in_path, size))
                    /\ writers' = Wrote(writers, out_path, in_path)
               ELSE UNCHANGED <<out_fs, writers>>
            /\ ok' = OkCount(ok, io_ok)
            /\ fail' = FailCount(fail, io_ok)
            /\ outcomes' = Append(outcomes,
                              [input |-> in_path, success |-> io_ok])
    /\ todo' = Tail(todo)
    /\ pc' = "walk"
    /\ UNCHANGED <<im, im_in, strategy, found>>
    /\ UNCHANGED encVars
    /\ UNCHANGED fileVars

\* lines 184-189, 200: an image file is handed to compress_one.
WalkImage ==
    /\ pc = "walk"
    /\ todo # << >>
    /\ is_image_file(Head(todo))
    /\ total' = total + 1
    /\ input_path' = Head(todo)
    /\ output_path' = Head(todo)
    /\ \E size \in 1..(MaxLen + 1), img \in DiskImages :
          on_disk' = [kind |-> "file", st_size |-> size, image |-> img]
    /\ todo' = Tail(todo)
    /\ pc' = "compress_call"
    /\ UNCHANGED <<im, im_in, strategy, ret, decoded>>
    /\ UNCHANGED encVars
    /\ UNCHANGED <<found, out_fs, writers, outcomes, ok, fail>>

\* lines 200-203: the outcome is tallied; the locals of the call are gone.
WalkTally ==
    /\ pc = "returned"
    /\ ok' = OkCount(ok, ret.success)
    /\ fail' = FailCount(fail, ret.success)
    /\ outcomes' = Append(outcomes,
                      [input |-> input_path, success |-> ret.success])
    /\ pc' = "walk"
    /\ im' = None /\ im_in' = None
    /\ base' = None /\ exif_bytes' = None /\ icc' = None /\ fmt' = "none"
    /\ rounds' = 0 /\ qi' = 0 /\ work' = <<0, 0>> /\ work_prev' = <<0, 0>>
    /\ last_data' = None /\ result' = None /\ probes' = << >>
    /\ input_path' = NoPath /\ output_path' = NoPath /\ on_disk' = None
    /\ ret' = None
    /\ UNCHANGED <<strategy, limit_bytes, min_side, decoded>>
    /\ UNCHANGED <<found, todo, out_fs, writers, total>>

\* lines 205-209: os.walk is exhausted and the summary printed.
WalkSummary ==
    /\ pc = "walk"
    /\ todo = << >>
    /\ pc' = "walk_done"
    /\ UNCHANGED <<im, im_in, strategy>>
    /\ UNCHANGED encVars
    /\ UNCHANGED fileVars
    /\ UNCHANGED walkVars

NextWalk ==
    \/ WalkCopy \/ WalkImage \/ WalkTally \/ WalkSummary
    \/ CompressFast \/ CompressOpen \/ CompressEncodeFail \/ CompressWrite
    \/ SaveBegin \/ Probe \/ FloorReturn \/ Shrink

SpecWalk == InitWalk /\ [][NextWalk]_vars

(***************************************************************************)
(* Properties of normalize_orientation (checked under SpecOri)             *)
(***************************************************************************)
Pixels(img) == <<img.w, img.h, img.px>>

\* The orientation tag of the image the call was made with.
InputTag == ReadOrientation(GetExif(im_in))

\* C3: whatever the strategy and the tag, when the input image has metadata
\* the metadata returned has its orientation field equal to 1, and when it
\* has none, none is returned.
C3_OrientationField ==
    pc = "norm_done" =>
        IF ExifTruthy(GetExif(im_in))
        THEN exif_bytes # None /\ BytesOrientation(exif_bytes) = 1
        ELSE exif_bytes = None

\* C3 witness: auto leaves a portrait image with tag 6 as it is and still
\* returns metadata whose orientation field is 1.
C3_Witness ==
    /\ pc = "norm_done" /\ strategy = "auto"
    /\ InputTag = 6 /\ im_in.w < im_in.h
    /\ Pixels(base) = Pixels(im_in)
    /\ exif_bytes # None /\ BytesOrientation(exif_bytes) = 1

\* C8: under auto the pixels returned are the input's transposed as the tag
\* says when the tag is 3 or 4, or is 5..8 on an image with width >= height;
\* otherwise they are the input's pixels.
C8_AutoRotation ==
    (pc = "norm_done" /\ strategy = "auto") =>
        LET rotate == \/ InputTag \in {3, 4}
                      \/ (InputTag \in 5..8 /\ im_in.w >= im_in.h)
        IN IF rotate
           THEN Pixels(base) = Pixels(Transpose(im_in, TransposeMethod(InputTag)))
           ELSE Pixels(base) = Pixels(im_in)

\* C8 witness: a square image with tag 6 is rotated.
C8_Witness ==
    /\ pc = "norm_done" /\ strategy = "auto"
    /\ InputTag = 6 /\ im_in.w = im_in.h
    /\ Pixels(base) # Pixels(im_in)
    /\ Pixels(base) = Pixels(Transpose(im_in, "ROTATE_270"))

(***************************************************************************)
(* Properties of the encoders (checked under SpecEnc / SpecEncFair)        *)
(***************************************************************************)
Lowest == Len(quality_steps(fmt))

ShortSide(size) == Min(size[1], size[2])

\* The probes at the lowest quality of a scale whose shorter side is at or
\* below min_side.
FloorProbes ==
    {i \in DOMAIN probes :
        probes[i].qi = Lowest /\ ShortSide(probes[i].size) <= min_side}

\* C1: the encoder returns more than limit_bytes only if the encoding at
\* the floor scale and the lowest quality is itself longer than
\* limit_bytes; a limit at least that long is always met.
C1_BudgetConvergence ==
    (pc = "save_done" /\ result.len > limit_bytes) =>
        \E i \in FloorProbes : probes[i].over

\* C1 witness: the search went down to the floor scale and the lowest
\* quality, whose encoding fits, and returned it.
C1_Witness ==
    /\ pc = "save_done" /\ rounds >= 1
    /\ Len(probes) \in FloorProbes
    /\ ~probes[Len(probes)].over
    /\ result.len <= limit_bytes

\* C4: the search terminates and returns an encoded buffer, after no more
\* shrink rounds than twice the shorter side of the image.
C4_Termination ==
    /\ <>(pc = "save_done" /\ result.kind = "bytes")
    /\ [](rounds <= 2 * Min(base.w, base.h))

\* C4 witness: the search ended after several shrink rounds with a buffer
\* that does not fit, no probe having fitted.
C4_Witness ==
    /\ pc = "save_done" /\ rounds >= 2
    /\ result.kind = "bytes" /\ result.len > limit_bytes
    /\ \A i \in DOMAIN probes : probes[i].over

\* C5: every resized working image has a shorter side of at least min_side.
C5_MinSideFloor ==
    \A i \in DOMAIN probes :
        probes[i].rounds >= 1 => ShortSide(probes[i].size) >= min_side

\* The probe after p in the order "whole ladder, then the next scale".
FollowsInOrder(p, n) ==
    IF p.qi < Lowest
    THEN n.rounds = p.rounds /\ n.qi = p.qi + 1
         /\ quality_steps(fmt)[n.qi] < quality_steps(fmt)[p.qi]
    ELSE n.rounds = p.rounds + 1 /\ n.qi = 1

IsEncodingOf(data, p) ==
    /\ data.kind = "bytes"
    /\ data.quality = quality_steps(fmt)[p.qi]
    /\ <<data.w, data.h>> = p.size
    /\ p.size = WorkSize(base.w, base.h, p.rounds)

\* C9: the probes go through the whole ladder from the highest quality down
\* at each scale before the next, smaller, scale; the search returns the
\* last probe; every probe before it exceeded limit_bytes; and when the
\* returned bytes exceed limit_bytes they are the lowest quality at a scale
\* whose shorter side is at most min_side.
C9_SearchOrder ==
    pc = "save_done" =>
        LET n == Len(probes)
        IN /\ n >= 1
           /\ probes[1].rounds = 0 /\ probes[1].qi = 1
           /\ \A i \in 1..(n - 1) :
                 probes[i].over /\ FollowsInOrder(probes[i], probes[i + 1])
           /\ IsEncodingOf(result, probes[n])
           /\ probes[n].over = (result.len > limit_bytes)
           /\ result.len > limit_bytes =>
                 /\ probes[n].qi = Lowest
                 /\ ShortSide(probes[n].size) <= min_side

\* C9 witness: the first fit came at a reduced scale, below the top quality.
C9_Witness ==
    /\ pc = "save_done" /\ rounds >= 1 /\ qi > 1 /\ qi < Lowest
    /\ result.len <= limit_bytes
    /\ Len(probes) = rounds * Lowest + qi
    /\ \A i \in 1..(Len(probes) - 1) : probes[i].over

(***************************************************************************)
(* Properties of compress_one (checked under SpecOne)                      *)
(***************************************************************************)
InEncoder == pc \in {"save_begin", "probe", "ladder_end", "save_done"}

\* C2: a file whose size is at most limit_bytes is never decoded nor
\* encoded, whatever its suffix and the strategy: the call goes straight to
\* its return, and when it succeeds the only file written is output_path,
\* suffix unchanged, holding the bytes of the source.
C2_Passthrough ==
    on_disk.st_size <= limit_bytes =>
        /\ pc \in {"compress_call", "returned"}
        /\ decoded = 0 /\ probes = << >> /\ result = None /\ im = None
        /\ pc = "compress_call" => out_fs = << >>
        /\ (pc = "returned" /\ ~ret.success) => out_fs = << >>
        /\ (pc = "returned" /\ ret.success) =>
              /\ DOMAIN out_fs = {output_path}
              /\ output_path.suffix = input_path.suffix
              /\ out_fs[output_path] = SourceBytes(input_path, on_disk.st_size)

\* C2 witness: a .png exactly at the limit was copied under strategy force.
C2_Witness ==
    /\ pc = "returned" /\ ret.success /\ ret.msg = "SKIP"
    /\ input_path.suffix = ".png" /\ strategy = "force"
    /\ on_disk.st_size = limit_bytes
    /\ output_path \in DOMAIN out_fs
    /\ out_fs[output_path].source = input_path

\* C6: a file over the limit goes to exactly one encoder and output suffix:
\* .png to the WebP encoder (which keeps an alpha channel) and .webp, the
\* eight listed suffixes to the JPEG encoder and .jpg, and any other suffix
\* to the JPEG encoder and .jpg.
C6_Dispatch ==
    LET ext    == Lower(input_path.suffix)
        listed == ext \in {".jpg", ".jpeg", ".webp", ".tif", ".tiff", ".bmp",
                           ".heic", ".heif"}
        enc    == IF ext = ".png" THEN "WEBP" ELSE "JPEG"
        sfx    == IF ext = ".png" THEN ".webp" ELSE ".jpg"
        msg    == IF ext = ".png" THEN "PNG->WebP->OK"
                  ELSE IF listed THEN "EXT->JPEG->OK" ELSE "OTHER->JPEG->OK"
    IN /\ InEncoder => fmt = enc
       /\ (pc = "returned" /\ ret.success
              /\ on_disk.st_size > limit_bytes) =>
             /\ result.format = enc
             /\ ret.msg = msg
             /\ ret.out = with_suffix(output_path, sfx)
             /\ DOMAIN out_fs = {ret.out}
             /\ out_fs[ret.out] = result
             /\ enc = "JPEG" => result.mode \in {"RGB", "L"}
             /\ (enc = "WEBP" /\ im_in.mode = "RGBA") => result.mode = "RGBA"

\* C6 witness: a .gif over the limit came out of the JPEG encoder as .jpg.
C6_Witness ==
    /\ pc = "returned" /\ ret.success
    /\ input_path.suffix = ".gif"
    /\ on_disk.st_size > limit_bytes
    /\ ret.msg = "OTHER->JPEG->OK"
    /\ ret.out.suffix = ".jpg"
    /\ result.format = "JPEG"

(***************************************************************************)
(* Properties of walk_and_compress (checked under SpecWalk)                *)
(***************************************************************************)
Inputs(os) == [i \in DOMAIN os |-> os[i].input]

Count(os, success) ==
    Cardinality({i \in DOMAIN os : os[i].success = success})

\* C7: each file os.walk yields is processed exactly once and in turn,
\* whatever the outcome of the files before it; each outcome is counted
\* once, in ok or in fail; and between files and at the end
\* total = ok + fail.
C7_FailureIsolation ==
    /\ ok = Count(outcomes, TRUE)
    /\ fail = Count(outcomes, FALSE)
    /\ pc \in {"walk", "walk_done"} =>
          /\ total = ok + fail
          /\ Inputs(outcomes) \o todo = found
    /\ pc \notin {"walk", "walk_done"} =>
          /\ total = ok + fail + 1
          /\ Inputs(outcomes) \o <<input_path>> \o todo = found
    /\ pc = "walk_done" => Inputs(outcomes) = found

\* C7 witness: the first of three files was an image that failed, and the
\* two after it were processed, the last with success.
C7_Witness ==
    /\ pc = "walk_done"
    /\ Len(found) = 3
    /\ is_image_file(found[1])
    /\ ~outcomes[1].success /\ outcomes[3].success
    /\ fail >= 1 /\ ok >= 1 /\ total = 3

\* C10: no output path is written for two different source files.
C10_OwnOutput ==
    \A p \in DOMAIN writers : Len(writers[p]) <= 1

====
